---- MODULE Spec2Model ----
(***************************************************************************)
(* Model of the IDL compiler's directive layer, src/src/idl/src/directive.c *)
(* (push_line, parse_line, push_keylist, parse_keylist and                  *)
(* idl_parse_directive).                                                    *)
(*                                                                          *)
(* The processor (idl_processor_t) is the record built by Proc from the     *)
(* variables; every handler is an operator from a processor record and a    *)
(* token to a result record [p, ret, diag, str, freed, moved]: the          *)
(* processor afterwards, the return code, the diagnostic emitted (idl_error *)
(* / idl_warning), the token's payload slot (tok->value.str) afterwards,    *)
(* the captured strings passed to free() and those handed to proc->files.   *)
(*                                                                          *)
(* Pointers that may be NULL are options: NULL is <<>>, a set pointer is    *)
(* <<x>>.  Memory allocation (malloc, calloc, realloc) is taken to succeed. *)
(***************************************************************************)
EXTENDS Integers, Sequences, FiniteSets, TLC

VARIABLES
  state,      \* proc->state
  directive,  \* proc->directive: NULL, or the idl_line_t / idl_keylist_t in progress
  files,      \* proc->files: the linked list of idl_file_t, as the sequence of names
  position,   \* proc->scanner.position: [file, line, column]
  mask,       \* per struct member: whether member->node.mask has IDL_KEY
  warnings,   \* "extra tokens" warnings emitted since the directive line began
  tok,        \* the token of the last idl_parse_directive call, as passed
  tokstr,     \* tok->value.str after that call
  ret,        \* the return code of that call
  diag,       \* the diagnostic that call emitted, "" when none
  failed,     \* some call so far returned an error (the caller is expected to stop)
  line_failed,\* some call since the directive line began returned an error
  mem         \* what that call did to the captured payloads: [freed, moved, lost]

vars == <<state, directive, files, position, mask, warnings, tok, tokstr, ret, diag,
          failed, line_failed, mem>>

----------------------------------------------------------------------------
(* Bounds of the model *)

\* extra tokens fed to one #line directive (each emits a warning, see parse_line)
MaxExtraTokens == 2
\* keys captured by one #pragma keylist directive
MaxKeys == 2

----------------------------------------------------------------------------
(* Basic values *)

NULL == <<>>
Some(x) == <<x>>

IDL_RETCODE_OK == "OK"
IDL_RETCODE_SYNTAX_ERROR == "SYNTAX_ERROR"
IDL_RETCODE_SEMANTIC_ERROR == "SEMANTIC_ERROR"

IDL_SCAN == "IDL_SCAN"
IDL_SCAN_DIRECTIVE == "IDL_SCAN_DIRECTIVE"
IDL_SCAN_DIRECTIVE_NAME == "IDL_SCAN_DIRECTIVE_NAME"
IDL_SCAN_LINE == "IDL_SCAN_LINE"
IDL_SCAN_FILENAME == "IDL_SCAN_FILENAME"
IDL_SCAN_EXTRA_TOKEN == "IDL_SCAN_EXTRA_TOKEN"
IDL_SCAN_PRAGMA == "IDL_SCAN_PRAGMA"
IDL_SCAN_KEYLIST == "IDL_SCAN_KEYLIST"
IDL_SCAN_KEY == "IDL_SCAN_KEY"

\* (proc->state & IDL_SCAN_LINE) == IDL_SCAN_LINE: the states of the #line family
InLineFamily(s) == s \in {IDL_SCAN_LINE, IDL_SCAN_FILENAME, IDL_SCAN_EXTRA_TOKEN}
\* (proc->state & IDL_SCAN_KEYLIST) == IDL_SCAN_KEYLIST: those of the keylist family
InKeylistFamily(s) == s \in {IDL_SCAN_KEYLIST, IDL_SCAN_KEY}

\* token codes
IDL_TOKEN_PP_NUMBER == "PP_NUMBER"
IDL_TOKEN_STRING_LITERAL == "STRING_LITERAL"
IDL_TOKEN_IDENTIFIER == "IDENTIFIER"
NEWLINE == "\n"
END == "NUL"
HASH == "#"
COMMA == ","
SEMICOLON == ";"

\* tok->code == '\n' || tok->code == 0
IsTerminator(t) == t.code = NEWLINE \/ t.code = END

Punct(c) == [code |-> c, str |-> NULL]
Number(s) == [code |-> IDL_TOKEN_PP_NUMBER, str |-> Some(s)]
String(s) == [code |-> IDL_TOKEN_STRING_LITERAL, str |-> Some(s)]
Ident(s) == [code |-> IDL_TOKEN_IDENTIFIER, str |-> Some(s)]

----------------------------------------------------------------------------
(* Texts.  TLC cannot index a string, so the characters of every number    *)
(* text are tabulated.                                                      *)

Chars ==
  ("0" :> <<"0">>) @@
  ("7" :> <<"7">>) @@
  ("007" :> <<"0","0","7">>) @@
  ("2147483647" :> <<"2","1","4","7","4","8","3","6","4","7">>) @@
  ("2147483648" :> <<"2","1","4","7","4","8","3","6","4","8">>) @@
  ("4294967303" :> <<"4","2","9","4","9","6","7","3","0","3">>) @@
  ("18446744073709551623" :> <<"1","8","4","4","6","7","4","4","0","7","3","7","0","9","5","5","1","6","2","3">>) @@
  ("7a" :> <<"7","a">>) @@
  ("1e5" :> <<"1","e","5">>) @@
  ("1e+5" :> <<"1","e","+","5">>) @@
  (".5" :> <<".","5">>) @@
  ("1.5" :> <<"1",".","5">>) @@
  ("0x7" :> <<"0","x","7">>)

DigitVal ==
  [ c \in {"0","1","2","3","4","5","6","7","8","9"} |->
      CASE c = "0" -> 0 [] c = "1" -> 1 [] c = "2" -> 2 [] c = "3" -> 3
        [] c = "4" -> 4 [] c = "5" -> 5 [] c = "6" -> 6 [] c = "7" -> 7
        [] c = "8" -> 8 [] c = "9" -> 9 ]

isdigit(c) == c \in DOMAIN DigitVal
isspace(c) == c \in {" ", "\t", "\n", "\r", "\f"}

----------------------------------------------------------------------------
(* unsigned long long arithmetic.  TLC's integers are 32 bits wide, so a    *)
(* 64-bit value is the sequence of its decimal digits, most significant     *)
(* first, without leading zeros (zero is the empty sequence).               *)

ULLONG_MAX == <<1,8,4,4,6,7,4,4,0,7,3,7,0,9,5,5,1,6,1,5>>

BigLt(a, b) ==
  \/ Len(a) < Len(b)
  \/ /\ Len(a) = Len(b)
     /\ \E i \in 1..Len(a) : a[i] < b[i] /\ \A j \in 1..(i-1) : a[j] = b[j]

\* acc * 10 + d
BigMulAdd(acc, d) == IF acc = <<>> /\ d = 0 THEN <<>> ELSE Append(acc, d)

RECURSIVE BigStrip(_)
BigStrip(a) == IF a # <<>> /\ a[1] = 0 THEN BigStrip(Tail(a)) ELSE a

\* a - b for a >= b, digit by digit from the least significant one
RECURSIVE BigSubDigits(_, _, _)
BigSubDigits(a, b, borrow) ==
  IF a = <<>> THEN <<>>
  ELSE LET da == a[Len(a)]
           db == (IF b = <<>> THEN 0 ELSE b[Len(b)]) + borrow
           d  == IF da >= db THEN da - db ELSE da + 10 - db
           br == IF da >= db THEN 0 ELSE 1
           a1 == SubSeq(a, 1, Len(a) - 1)
           b1 == IF b = <<>> THEN <<>> ELSE SubSeq(b, 1, Len(b) - 1)
       IN  Append(BigSubDigits(a1, b1, br), d)

BigSub(a, b) == BigStrip(BigSubDigits(a, b, 0))

\* 2^64
TWO64 == <<1,8,4,4,6,7,4,4,0,7,3,7,0,9,5,5,1,6,1,6>>

\* -v modulo 2^64
BigNeg(v) == IF v = <<>> THEN <<>> ELSE BigSub(TWO64, v)

\* the int of a value known to be at most INT32_MAX
RECURSIVE BigToInt(_)
BigToInt(a) == IF a = <<>> THEN 0 ELSE BigToInt(SubSeq(a, 1, Len(a) - 1)) * 10 + a[Len(a)]

RECURSIVE IntToBig(_)
IntToBig(n) == IF n = 0 THEN <<>> ELSE Append(IntToBig(n \div 10), n % 10)

----------------------------------------------------------------------------
(* strtoull(nptr, &end, 10): white space, an optional sign, decimal digits. *)
(* value: the converted value, ULLONG_MAX on overflow (ERANGE), negated     *)
(* modulo 2^64 after a minus sign; end: the index of the first character    *)
(* not converted, 1 (nptr itself) when no digit was converted.              *)

RECURSIVE SkipSpace(_, _)
SkipSpace(s, i) == IF i <= Len(s) /\ isspace(s[i]) THEN SkipSpace(s, i + 1) ELSE i

RECURSIVE ScanDigits(_, _, _, _)
ScanDigits(s, i, acc, ovf) ==
  IF i <= Len(s) /\ isdigit(s[i])
  THEN LET nxt == BigMulAdd(acc, DigitVal[s[i]])
       IN  IF ovf \/ BigLt(ULLONG_MAX, nxt)
           THEN ScanDigits(s, i + 1, acc, TRUE)
           ELSE ScanDigits(s, i + 1, nxt, FALSE)
  ELSE [end |-> i, acc |-> acc, ovf |-> ovf]

strtoull(s) ==
  LET i0  == SkipSpace(s, 1)
      neg == i0 <= Len(s) /\ s[i0] = "-"
      i1  == IF i0 <= Len(s) /\ s[i0] \in {"+", "-"} THEN i0 + 1 ELSE i0
      r   == ScanDigits(s, i1, <<>>, FALSE)
  IN  IF r.end = i1
      THEN [value |-> <<>>, end |-> 1]
      ELSE [value |-> IF r.ovf THEN ULLONG_MAX
                      ELSE IF neg THEN BigNeg(r.acc) ELSE r.acc,
            end |-> r.end]

INT32_MAX == 2147483647

----------------------------------------------------------------------------
(* The processor and the results of the handlers *)

Proc ==
  [state |-> state, directive |-> directive, files |-> files,
   position |-> position, mask |-> mask, warnings |-> warnings]

\* a payload (the string of a token) a directive has captured, named by the
\* field that holds it: dir->file, dir->data_type, dir->keys[index]
payload(field, index) == [field |-> field, index |-> index]

\* freed: the payloads the call passed to free(), in order; moved: the payloads
\* it handed to the file table
Result(p, r, d, s) ==
  [p |-> p, ret |-> r, diag |-> d, str |-> s, freed |-> <<>>, moved |-> <<>>]

\* the result of a handler that ends in a commit (push_line, push_keylist)
Commit(r, d, s) ==
  [p |-> r.p, ret |-> r.ret, diag |-> d, str |-> s, freed |-> r.freed, moved |-> r.moved]

\* idl_error(...) followed by return IDL_RETCODE_SYNTAX_ERROR: nothing else changes
SyntaxError(p, t, msg) == Result(p, IDL_RETCODE_SYNTAX_ERROR, msg, t.str)

\* strcmp(a, b) == 0
streq(a, b) == a = b

----------------------------------------------------------------------------
(* push_line: the commit of a #line directive *)

\* the file names the model feeds, folded to lower case
FoldName(s) == IF s = "A.idl" THEN "a.idl" ELSE s

\* find_file comparing with strcasecmp for strcmp
RECURSIVE find_file_nocase(_, _, _)
find_file_nocase(fs, name, i) ==
  IF i > Len(fs) THEN 0
  ELSE IF FoldName(name) = FoldName(fs[i]) THEN i
  ELSE find_file_nocase(fs, name, i + 1)

\* lines 47-50: the index of the first file whose name equals name, 0 for none
RECURSIVE find_file(_, _, _)
find_file(fs, name, i) ==
  IF i > Len(fs) THEN 0
  ELSE IF streq(name, fs[i]) THEN i
  ELSE find_file(fs, name, i + 1)

\* lines 51-65: the file list with name's entry, a new one linked last
link_file(fs, name) ==
  IF find_file(fs, name, 1) = 0 THEN Append(fs, name) ELSE fs

\* push_position with line 66 moved out of the if: the file is set from a
\* directive that has none
push_position_nofile(pos, fs, dir) ==
  [file   |-> IF dir.file # NULL
              THEN Some(fs[find_file(fs, dir.file[1], 1)])
              ELSE NULL,
   line   |-> dir.line[1],
   column |-> 1]

\* lines 66-70: the scan position after the commit
push_position(pos, fs, dir) ==
  [file   |-> IF dir.file # NULL
              THEN Some(fs[find_file(fs, dir.file[1], 1)])
              ELSE pos.file,
   line   |-> dir.line[1],
   column |-> 1]

\* lines 55 and 64: the name of a new file becomes the entry's name, the name
\* of a file already listed is freed
push_line(p, dir) ==
  LET fs    == IF dir.file # NULL THEN link_file(p.files, dir.file[1]) ELSE p.files
      known == dir.file # NULL /\ find_file(p.files, dir.file[1], 1) # 0
      new   == dir.file # NULL /\ find_file(p.files, dir.file[1], 1) = 0
  IN  [p     |-> [p EXCEPT !.files = fs,
                           !.position = push_position(p.position, fs, dir),
                           !.directive = NULL],
       ret   |-> IDL_RETCODE_OK,
       freed |-> IF known THEN <<payload("file", 0)>> ELSE <<>>,
       moved |-> IF new THEN <<payload("file", 0)>> ELSE <<>>]

----------------------------------------------------------------------------
(* parse_line *)

\* invalid_line_number with the bound one too small (>= for >)
invalid_line_number_ge(s) ==
  LET n == strtoull(s)
  IN  n.end = 1 \/ n.end <= Len(s) \/ ~BigLt(n.value, IntToBig(INT32_MAX))

\* line 96: end == tok->value.str || *end != '\0' || ullng > INT32_MAX
invalid_line_number(s) ==
  LET n == strtoull(s)
  IN  n.end = 1 \/ n.end <= Len(s) \/ BigLt(IntToBig(INT32_MAX), n.value)

\* scan_line moving to IDL_SCAN_FILENAME before it looks at the token, as
\* case IDL_SCAN_FILENAME does with IDL_SCAN_EXTRA_TOKEN
scan_line_early(p, t) ==
  LET dir == p.directive[1]
      p1  == [p EXCEPT !.state = IDL_SCAN_FILENAME]
      s   == Chars[t.str[1]]
  IN  IF t.code # IDL_TOKEN_PP_NUMBER
      THEN SyntaxError(p1, t, "no line number in #line directive")
      ELSE IF invalid_line_number(s)
      THEN SyntaxError(p1, t, "invalid line number in #line directive")
      ELSE Result([p1 EXCEPT !.directive = Some([dir EXCEPT !.line = Some(BigToInt(strtoull(s).value))])],
                  IDL_RETCODE_OK, "", t.str)

\* lines 101-107
scan_line(p, t) ==
  LET dir == p.directive[1]
      s   == Chars[t.str[1]]
  IN  IF t.code # IDL_TOKEN_PP_NUMBER
      THEN SyntaxError(p, t, "no line number in #line directive")
      ELSE IF invalid_line_number(s)
      THEN SyntaxError(p, t, "invalid line number in #line directive")
      ELSE Result([p EXCEPT !.directive = Some([dir EXCEPT !.line = Some(BigToInt(strtoull(s).value))]),
                            !.state = IDL_SCAN_FILENAME],
                  IDL_RETCODE_OK, "", t.str)

\* scan_extra_token with the extra token an error
scan_extra_token_strict(p, t) ==
  LET dir == p.directive[1]
  IN  IF IsTerminator(t)
      THEN LET r == push_line([p EXCEPT !.state = IDL_SCAN], dir)
           IN  Commit(r, "", t.str)
      ELSE SyntaxError(p, t, "extra tokens at end of #line directive")

\* lines 132-141: case IDL_SCAN_EXTRA_TOKEN.  dir->extra_tokens is read, and never set
scan_extra_token(p, t) ==
  LET dir == p.directive[1]
  IN  IF IsTerminator(t)
      THEN LET r == push_line([p EXCEPT !.state = IDL_SCAN], dir)
           IN  Commit(r, "", t.str)
      ELSE IF ~dir.extra_tokens
      THEN Result([p EXCEPT !.warnings = @ + 1], IDL_RETCODE_OK,
                  "extra tokens at end of #line directive", t.str)
      ELSE Result(p, IDL_RETCODE_OK, "", t.str)

\* scan_filename entering the file in proc->files when the name is captured
scan_filename_link(p, t) ==
  LET dir == p.directive[1]
      p1  == [p EXCEPT !.state = IDL_SCAN_EXTRA_TOKEN]
  IN  IF ~IsTerminator(t)
      THEN IF t.code # IDL_TOKEN_STRING_LITERAL
           THEN SyntaxError(p1, t, "invalid filename in #line directive")
           ELSE Result([p1 EXCEPT !.directive = Some([dir EXCEPT !.file = t.str]),
                                  !.files = link_file(@, t.str[1])],
                       IDL_RETCODE_OK, "", NULL)
      ELSE scan_extra_token(p1, t)

\* lines 109-131: case IDL_SCAN_FILENAME, the state set before the token is looked at
scan_filename(p, t) ==
  LET dir == p.directive[1]
      p1  == [p EXCEPT !.state = IDL_SCAN_EXTRA_TOKEN]
  IN  IF ~IsTerminator(t)
      THEN IF t.code # IDL_TOKEN_STRING_LITERAL
           THEN SyntaxError(p1, t, "invalid filename in #line directive")
           ELSE Result([p1 EXCEPT !.directive = Some([dir EXCEPT !.file = t.str])],
                       IDL_RETCODE_OK, "", NULL)
      ELSE scan_extra_token(p1, t)

parse_line(p, t) ==
  CASE p.state = IDL_SCAN_LINE        -> scan_line(p, t)
    [] p.state = IDL_SCAN_FILENAME    -> scan_filename(p, t)
    [] p.state = IDL_SCAN_EXTRA_TOKEN -> scan_extra_token(p, t)

----------------------------------------------------------------------------
(* The declarations in scope when the directives are read: the scope's      *)
(* entries and the tree they name.                                          *)
(*   struct S { long a, b; long c; };  struct T { long a; };                *)
(*   struct F;  enum E { ... };                                             *)

Nodes ==
  [ S |-> [struct |-> TRUE,  forward |-> FALSE, members |-> <<"S1", "S2">>],
    T |-> [struct |-> TRUE,  forward |-> FALSE, members |-> <<"T1">>],
    F |-> [struct |-> TRUE,  forward |-> TRUE,  members |-> <<>>],
    E |-> [struct |-> FALSE, forward |-> FALSE, members |-> <<>>] ]

\* member->declarators, the names in declaration order
Declarators == [ S1 |-> <<"a", "b">>, S2 |-> <<"c">>, T1 |-> <<"a">> ]

Members == DOMAIN Declarators

\* proc->scope: entry->name->identifier and entry->node
Scope ==
  << [name |-> "S", node |-> "S"], [name |-> "T", node |-> "T"],
     [name |-> "F", node |-> "F"], [name |-> "E", node |-> "E"] >>

\* the identifiers the model feeds, folded to lower case
ToLower(s) ==
  CASE s = "S" -> "s" [] s = "T" -> "t" [] s = "F" -> "f" [] s = "E" -> "e"
    [] s = "U" -> "u" [] s = "A" -> "a"
    [] OTHER -> s

\* idl_find(proc, proc->scope, name): the first entry of that name, letter
\* case ignored; NULL for none
RECURSIVE idl_find(_, _, _)
idl_find(scope, name, i) ==
  IF i > Len(scope) THEN NULL
  ELSE IF ToLower(scope[i].name) = ToLower(name) THEN Some(scope[i])
  ELSE idl_find(scope, name, i + 1)

\* idl_iskeyword(proc, str, 1)
idl_iskeyword(s) == ToLower(s) \in {"struct"}

----------------------------------------------------------------------------
(* push_keylist: the commit of a #pragma keylist directive *)

\* has_declarator comparing with strcasecmp for strcmp
has_declarator_nocase(member, key) ==
  \E j \in 1..Len(Declarators[member]) :
     ToLower(Declarators[member][j]) = ToLower(key)

\* lines 184-187: some declarator of the member has the key's name
has_declarator(member, key) ==
  \E j \in 1..Len(Declarators[member]) : streq(Declarators[member][j], key)

\* lines 180-190: the first member with such a declarator, NULL for none
RECURSIVE find_member(_, _, _)
find_member(members, key, i) ==
  IF i > Len(members) THEN NULL
  ELSE IF has_declarator(members[i], key) THEN Some(members[i])
  ELSE find_member(members, key, i + 1)

\* key_error without lines 195-198: a key already flagged is accepted
key_error_nodup(msk, member) ==
  IF member = NULL THEN "unknown struct member in keylist directive" ELSE ""

\* lines 191-199: the diagnostic for a key, "" when its member can be flagged
key_error(msk, member) ==
  IF member = NULL THEN "unknown struct member in keylist directive"
  ELSE IF msk[member[1]] THEN "redefinition of key in keylist directive"
  ELSE ""

\* bind_keys looking at each member's first declarator only
RECURSIVE bind_keys_first(_, _, _, _)
bind_keys_first(msk, members, keys, i) ==
  IF i > Len(keys) THEN [mask |-> msk, ret |-> IDL_RETCODE_OK, diag |-> ""]
  ELSE LET hit == {j \in 1..Len(members) : streq(Declarators[members[j]][1], keys[i])}
           member == IF hit = {} THEN NULL
                     ELSE Some(members[CHOOSE j \in hit : \A k \in hit : j <= k])
           bad == key_error(msk, member)
       IN  IF bad # ""
           THEN [mask |-> msk, ret |-> IDL_RETCODE_SEMANTIC_ERROR, diag |-> bad]
           ELSE bind_keys_first([msk EXCEPT ![member[1]] = TRUE], members, keys, i + 1)

\* bind_keys telling the declarators of a member apart: a key is no duplicate
\* when the earlier key of its member names another declarator
RECURSIVE bind_keys_per_declarator(_, _, _, _)
bind_keys_per_declarator(msk, members, keys, i) ==
  IF i > Len(keys) THEN [mask |-> msk, ret |-> IDL_RETCODE_OK, diag |-> ""]
  ELSE LET member == find_member(members, keys[i], 1)
           other  == /\ member # NULL
                     /\ \E j \in 1..(i-1) : /\ keys[j] # keys[i]
                                            /\ has_declarator(member[1], keys[j])
           bad    == IF other THEN "" ELSE key_error(msk, member)
       IN  IF bad # ""
           THEN [mask |-> msk, ret |-> IDL_RETCODE_SEMANTIC_ERROR, diag |-> bad]
           ELSE bind_keys_per_declarator([msk EXCEPT ![member[1]] = TRUE], members, keys, i + 1)

\* lines 178-201: the keys from the i-th on, each flagged as soon as it is bound
RECURSIVE bind_keys(_, _, _, _)
bind_keys(msk, members, keys, i) ==
  IF i > Len(keys) THEN [mask |-> msk, ret |-> IDL_RETCODE_OK, diag |-> ""]
  ELSE LET member == find_member(members, keys[i], 1)
           bad    == key_error(msk, member)
       IN  IF bad # ""
           THEN [mask |-> msk, ret |-> IDL_RETCODE_SEMANTIC_ERROR, diag |-> bad]
           ELSE bind_keys([msk EXCEPT ![member[1]] = TRUE], members, keys, i + 1)

\* check_data_type with the struct check (lines 169-175) before the case check
check_data_type_struct_first(data_type) ==
  LET entry == idl_find(Scope, data_type, 1)
  IN  IF entry = NULL
      THEN "unknown data-type in keylist directive"
      ELSE IF ~Nodes[entry[1].node].struct \/ Nodes[entry[1].node].forward
      THEN "data-type in keylist directive is not a struct"
      ELSE IF ~streq(data_type, entry[1].name)
      THEN "data-type differs in case"
      ELSE ""

\* lines 158-175: the diagnostic of the first check the data-type fails, "" for none
check_data_type(data_type) ==
  LET entry == idl_find(Scope, data_type, 1)
  IN  IF entry = NULL
      THEN "unknown data-type in keylist directive"
      ELSE IF ~streq(data_type, entry[1].name)
      THEN "data-type differs in case"
      ELSE IF ~Nodes[entry[1].node].struct \/ Nodes[entry[1].node].forward
      THEN "data-type in keylist directive is not a struct"
      ELSE ""

\* lines 203-209: the identifier of every key, in order, then that of the
\* data type
free_keylist(dir) ==
  [i \in 1..Len(dir.keys) |-> payload("keys", i)] \o <<payload("data_type", 0)>>

\* push_keylist undoing the flags of a directive that fails
push_keylist_rollback(p, dir) ==
  LET data_type == dir.data_type[1]
      bad       == check_data_type(data_type)
      _struct   == Nodes[idl_find(Scope, data_type, 1)[1].node]
      b         == bind_keys(p.mask, _struct.members, dir.keys, 1)
  IN  IF bad # ""
      THEN [p |-> p, ret |-> IDL_RETCODE_SEMANTIC_ERROR, diag |-> bad,
            freed |-> <<>>, moved |-> <<>>]
      ELSE IF b.ret # IDL_RETCODE_OK
      THEN [p |-> p, ret |-> b.ret, diag |-> b.diag, freed |-> <<>>, moved |-> <<>>]
      ELSE [p |-> [p EXCEPT !.mask = b.mask, !.directive = NULL],
            ret |-> IDL_RETCODE_OK, diag |-> "",
            freed |-> free_keylist(dir), moved |-> <<>>]

\* every error return leaves proc->directive as it is; lines 203-212 free the
\* directive and clear proc->directive
push_keylist(p, dir) ==
  LET data_type == dir.data_type[1]
      bad       == check_data_type(data_type)
      _struct   == Nodes[idl_find(Scope, data_type, 1)[1].node]
      b         == bind_keys(p.mask, _struct.members, dir.keys, 1)
  IN  IF bad # ""
      THEN [p |-> p, ret |-> IDL_RETCODE_SEMANTIC_ERROR, diag |-> bad,
            freed |-> <<>>, moved |-> <<>>]
      ELSE IF b.ret # IDL_RETCODE_OK
      THEN [p |-> [p EXCEPT !.mask = b.mask], ret |-> b.ret, diag |-> b.diag,
            freed |-> <<>>, moved |-> <<>>]
      ELSE [p |-> [p EXCEPT !.mask = b.mask, !.directive = NULL],
            ret |-> IDL_RETCODE_OK, diag |-> "",
            freed |-> free_keylist(dir), moved |-> <<>>]

----------------------------------------------------------------------------
(* parse_keylist *)

\* lines 224-244: case IDL_SCAN_KEYLIST
scan_keylist(p, t) ==
  LET dir == p.directive[1]
  IN  IF IsTerminator(t)
      THEN SyntaxError(p, t, "no data-type in #pragma keylist directive")
      ELSE IF t.code # IDL_TOKEN_IDENTIFIER
      THEN SyntaxError(p, t, "invalid data-type in #pragma keylist directive")
      ELSE Result([p EXCEPT !.directive = Some([dir EXCEPT !.data_type = t.str]),
                            !.state = IDL_SCAN_KEY],
                  IDL_RETCODE_OK, "", NULL)

\* scan_key taking a comma whether or not a key has been captured
scan_key_any_comma(p, t) ==
  LET dir == p.directive[1]
  IN  IF IsTerminator(t)
      THEN LET r == push_keylist([p EXCEPT !.state = IDL_SCAN], dir)
           IN  Commit(r, r.diag, t.str)
      ELSE IF t.code = COMMA
      THEN Result(p, IDL_RETCODE_OK, "", t.str)
      ELSE IF t.code # IDL_TOKEN_IDENTIFIER
      THEN SyntaxError(p, t, "invalid key in #pragma keylist directive")
      ELSE IF idl_iskeyword(t.str[1])
      THEN SyntaxError(p, t, "invalid key (keyword) in #pragma keylist directive")
      ELSE Result([p EXCEPT !.directive = Some([dir EXCEPT !.keys = Append(@, t.str[1])])],
                  IDL_RETCODE_OK, "", NULL)

\* lines 245-278: case IDL_SCAN_KEY.  dir->keys is NULL until the first key
scan_key(p, t) ==
  LET dir == p.directive[1]
  IN  IF IsTerminator(t)
      THEN LET r == push_keylist([p EXCEPT !.state = IDL_SCAN], dir)
           IN  Commit(r, r.diag, t.str)
      ELSE IF t.code = COMMA /\ dir.keys # <<>>
      THEN Result(p, IDL_RETCODE_OK, "", t.str)
      ELSE IF t.code # IDL_TOKEN_IDENTIFIER
      THEN SyntaxError(p, t, "invalid key in #pragma keylist directive")
      ELSE IF idl_iskeyword(t.str[1])
      THEN SyntaxError(p, t, "invalid key (keyword) in #pragma keylist directive")
      ELSE Result([p EXCEPT !.directive = Some([dir EXCEPT !.keys = Append(@, t.str[1])])],
                  IDL_RETCODE_OK, "", NULL)

parse_keylist(p, t) ==
  CASE p.state = IDL_SCAN_KEYLIST -> scan_keylist(p, t)
    [] p.state = IDL_SCAN_KEY     -> scan_key(p, t)

----------------------------------------------------------------------------
(* idl_parse_directive *)

\* lines 316-323
new_line == [kind |-> "IDL_LINE", line |-> NULL, file |-> NULL, extra_tokens |-> FALSE]
\* lines 298-303
new_keylist == [kind |-> "IDL_KEYLIST", data_type |-> NULL, keys |-> <<>>]

\* idl_parse_directive taking an empty #pragma line as it takes an empty # line
idl_parse_directive_empty_pragma(p, t) ==
  IF InLineFamily(p.state) THEN parse_line(p, t)
  ELSE IF InKeylistFamily(p.state) THEN parse_keylist(p, t)
  ELSE IF p.state = IDL_SCAN_PRAGMA /\ t.code = IDL_TOKEN_IDENTIFIER
  THEN IF streq(t.str[1], "keylist")
       THEN Result([p EXCEPT !.directive = Some(new_keylist), !.state = IDL_SCAN_KEYLIST],
                   IDL_RETCODE_OK, "", t.str)
       ELSE SyntaxError(p, t, "unsupported #pragma directive")
  ELSE IF p.state = IDL_SCAN_DIRECTIVE_NAME /\ t.code = IDL_TOKEN_IDENTIFIER
          /\ streq(t.str[1], "line")
  THEN Result([p EXCEPT !.directive = Some(new_line), !.state = IDL_SCAN_LINE],
              IDL_RETCODE_OK, "", t.str)
  ELSE IF p.state = IDL_SCAN_DIRECTIVE_NAME /\ t.code = IDL_TOKEN_IDENTIFIER
          /\ streq(t.str[1], "pragma")
  THEN Result([p EXCEPT !.state = IDL_SCAN_PRAGMA], IDL_RETCODE_OK, "", t.str)
  ELSE IF p.state \in {IDL_SCAN_DIRECTIVE_NAME, IDL_SCAN_PRAGMA}
          /\ t.code # IDL_TOKEN_IDENTIFIER /\ IsTerminator(t)
  THEN Result([p EXCEPT !.state = IDL_SCAN], IDL_RETCODE_OK, "", t.str)
  ELSE IF p.state = IDL_SCAN_DIRECTIVE /\ t.code = HASH
  THEN Result([p EXCEPT !.state = IDL_SCAN_DIRECTIVE_NAME], IDL_RETCODE_OK, "", t.str)
  ELSE SyntaxError(p, t, "invalid compiler directive")

\* idl_parse_directive without line 333: an empty # line returns Ok and the
\* state stays IDL_SCAN_DIRECTIVE_NAME
idl_parse_directive_no_reset(p, t) ==
  IF InLineFamily(p.state) THEN parse_line(p, t)
  ELSE IF InKeylistFamily(p.state) THEN parse_keylist(p, t)
  ELSE IF p.state = IDL_SCAN_PRAGMA /\ t.code = IDL_TOKEN_IDENTIFIER
  THEN IF streq(t.str[1], "keylist")
       THEN Result([p EXCEPT !.directive = Some(new_keylist), !.state = IDL_SCAN_KEYLIST],
                   IDL_RETCODE_OK, "", t.str)
       ELSE SyntaxError(p, t, "unsupported #pragma directive")
  ELSE IF p.state = IDL_SCAN_DIRECTIVE_NAME /\ t.code = IDL_TOKEN_IDENTIFIER
          /\ streq(t.str[1], "line")
  THEN Result([p EXCEPT !.directive = Some(new_line), !.state = IDL_SCAN_LINE],
              IDL_RETCODE_OK, "", t.str)
  ELSE IF p.state = IDL_SCAN_DIRECTIVE_NAME /\ t.code = IDL_TOKEN_IDENTIFIER
          /\ streq(t.str[1], "pragma")
  THEN Result([p EXCEPT !.state = IDL_SCAN_PRAGMA], IDL_RETCODE_OK, "", t.str)
  ELSE IF p.state = IDL_SCAN_DIRECTIVE_NAME /\ t.code # IDL_TOKEN_IDENTIFIER
          /\ IsTerminator(t)
  THEN Result(p, IDL_RETCODE_OK, "", t.str)
  ELSE IF p.state = IDL_SCAN_DIRECTIVE /\ t.code = HASH
  THEN Result([p EXCEPT !.state = IDL_SCAN_DIRECTIVE_NAME], IDL_RETCODE_OK, "", t.str)
  ELSE SyntaxError(p, t, "invalid compiler directive")

idl_parse_directive(p, t) ==
  IF InLineFamily(p.state) THEN parse_line(p, t)
  ELSE IF InKeylistFamily(p.state) THEN parse_keylist(p, t)
  ELSE IF p.state = IDL_SCAN_PRAGMA /\ t.code = IDL_TOKEN_IDENTIFIER
  THEN IF streq(t.str[1], "keylist")
       THEN Result([p EXCEPT !.directive = Some(new_keylist), !.state = IDL_SCAN_KEYLIST],
                   IDL_RETCODE_OK, "", t.str)
       ELSE SyntaxError(p, t, "unsupported #pragma directive")
  ELSE IF p.state = IDL_SCAN_DIRECTIVE_NAME /\ t.code = IDL_TOKEN_IDENTIFIER
          /\ streq(t.str[1], "line")
  THEN Result([p EXCEPT !.directive = Some(new_line), !.state = IDL_SCAN_LINE],
              IDL_RETCODE_OK, "", t.str)
  ELSE IF p.state = IDL_SCAN_DIRECTIVE_NAME /\ t.code = IDL_TOKEN_IDENTIFIER
          /\ streq(t.str[1], "pragma")
  THEN Result([p EXCEPT !.state = IDL_SCAN_PRAGMA], IDL_RETCODE_OK, "", t.str)
  ELSE IF p.state = IDL_SCAN_DIRECTIVE_NAME /\ t.code # IDL_TOKEN_IDENTIFIER
          /\ IsTerminator(t)
  THEN Result([p EXCEPT !.state = IDL_SCAN], IDL_RETCODE_OK, "", t.str)
  ELSE IF p.state = IDL_SCAN_DIRECTIVE /\ t.code = HASH
  THEN Result([p EXCEPT !.state = IDL_SCAN_DIRECTIVE_NAME], IDL_RETCODE_OK, "", t.str)
  ELSE SyntaxError(p, t, "invalid compiler directive")

----------------------------------------------------------------------------
(* The tokens the scanner hands over *)

\* a preprocessing number begins with a digit, or with a period and a digit
IsPPNumber(s) ==
  /\ Len(s) >= 1
  /\ isdigit(s[1]) \/ (s[1] = "." /\ Len(s) >= 2 /\ isdigit(s[2]))
  /\ \A i \in 2..Len(s) : s[i] \in {"+", "-"} => s[i-1] \in {"e", "E", "p", "P"}

NumberTexts == {s \in DOMAIN Chars : IsPPNumber(Chars[s])}
FileNames == {"a.idl", "b.idl", "A.idl"}
TypeNames == {"S", "s", "T", "F", "f", "E", "U"}
KeyNames == {"a", "b", "c", "A"}

\* The inputs of a state are one token for every way the code tells tokens
\* apart there, and every text where the code looks at the text.

\* the tokens of lines that hold a #line directive, or a malformed one
LineInputs(st) ==
  CASE st = IDL_SCAN_DIRECTIVE ->
         {Punct(HASH), Punct(NEWLINE), Ident("line")}
    [] st = IDL_SCAN_DIRECTIVE_NAME ->
         {Ident("line"), Ident("include"), Punct(NEWLINE), Punct(END), Punct(HASH)}
    [] st = IDL_SCAN_LINE ->
         {Number(s) : s \in NumberTexts}
           \cup {String("a.idl"), Ident("line"), Punct(NEWLINE), Punct(END)}
    [] st = IDL_SCAN_FILENAME ->
         {String(s) : s \in FileNames}
           \cup {Number("7"), Ident("include"), Punct(NEWLINE), Punct(END)}
    [] st = IDL_SCAN_EXTRA_TOKEN ->
         {String("a.idl"), Ident("include"), Punct(NEWLINE), Punct(END)}
    [] OTHER -> {}

\* the tokens of lines that hold a #pragma keylist directive, or a malformed one
KeylistInputs(st) ==
  CASE st = IDL_SCAN_DIRECTIVE ->
         {Punct(HASH), Punct(NEWLINE), Ident("pragma")}
    [] st = IDL_SCAN_DIRECTIVE_NAME ->
         {Ident("pragma"), Ident("include"), Punct(NEWLINE), Punct(END), Punct(HASH)}
    [] st = IDL_SCAN_PRAGMA ->
         {Ident("keylist"), Ident("once"), Punct(NEWLINE), Punct(HASH)}
    [] st = IDL_SCAN_KEYLIST ->
         {Ident(s) : s \in TypeNames}
           \cup {Number("7"), Punct(COMMA), Punct(NEWLINE), Punct(END)}
    [] st = IDL_SCAN_KEY ->
         {Ident(s) : s \in KeyNames \cup {"struct"}}
           \cup {Punct(COMMA), Punct(SEMICOLON), Punct(NEWLINE), Punct(END)}
    [] OTHER -> {}

Inputs(st) == LineInputs(st) \cup KeylistInputs(st)

\* the tokens of lines of both kinds: every kind of token where no directive is
\* recognised yet, and one text for every branch of a directive's states
MixedInputs(st) ==
  CASE st = IDL_SCAN_DIRECTIVE ->
         {Punct(HASH), Punct(COMMA), Punct(NEWLINE), Punct(END),
          Ident("line"), Ident("pragma"), Number("7"), String("a.idl")}
    [] st = IDL_SCAN_DIRECTIVE_NAME ->
         {Ident("line"), Ident("Line"), Ident("pragma"), Ident("keylist"),
          Ident("include"), Number("7"), String("a.idl"),
          Punct(HASH), Punct(COMMA), Punct(NEWLINE), Punct(END)}
    [] st = IDL_SCAN_PRAGMA ->
         {Ident("keylist"), Ident("Keylist"), Ident("line"), Ident("pragma"),
          Ident("once"), Number("7"), String("a.idl"),
          Punct(HASH), Punct(COMMA), Punct(NEWLINE), Punct(END)}
    [] st = IDL_SCAN_LINE ->
         {Number("7"), Number("7a"), Ident("line"), Punct(NEWLINE)}
    [] st = IDL_SCAN_FILENAME ->
         {String("a.idl"), Ident("include"), Punct(NEWLINE), Punct(END)}
    [] st = IDL_SCAN_EXTRA_TOKEN ->
         {Ident("include"), Punct(NEWLINE), Punct(END)}
    [] st = IDL_SCAN_KEYLIST ->
         {Ident("S"), Ident("U"), Punct(COMMA), Punct(NEWLINE)}
    [] st = IDL_SCAN_KEY ->
         {Ident("a"), Ident("c"), Ident("struct"),
          Punct(COMMA), Punct(SEMICOLON), Punct(NEWLINE), Punct(END)}
    [] OTHER -> {}

----------------------------------------------------------------------------
(* The state machine *)

Init ==
  /\ state = IDL_SCAN
  /\ directive = NULL
  /\ files = <<>>
  /\ position = [file |-> NULL, line |-> 1, column |-> 1]
  /\ mask = [m \in Members |-> FALSE]
  /\ warnings = 0
  /\ tok = Punct(NEWLINE)
  /\ tokstr = NULL
  /\ ret = IDL_RETCODE_OK
  /\ diag = ""
  /\ failed = FALSE
  /\ line_failed = FALSE
  /\ mem = [freed |-> <<>>, moved |-> <<>>, lost |-> {}]

\* the scanner meets a line that begins with '#': the tokens of the line go to
\* idl_parse_directive, the column being past the '#'
BeginDirective ==
  /\ state = IDL_SCAN
  /\ state' = IDL_SCAN_DIRECTIVE
  /\ position' = [position EXCEPT !.column = 2]
  /\ warnings' = 0
  /\ line_failed' = FALSE
  /\ UNCHANGED <<directive, files, mask, tok, tokstr, ret, diag, failed, mem>>

\* the payloads the directive in progress holds
Captured(d) ==
  IF d = NULL THEN {}
  ELSE IF d[1].kind = "IDL_LINE"
  THEN IF d[1].file # NULL THEN {payload("file", 0)} ELSE {}
  ELSE (IF d[1].data_type # NULL THEN {payload("data_type", 0)} ELSE {})
       \cup {payload("keys", i) : i \in 1..Len(d[1].keys)}

\* the payloads a call lost: held before it, and after it neither held, nor
\* freed, nor in the file table
Lost(before, r) ==
  (Captured(before) \ Captured(r.p.directive))
    \ ({r.freed[i] : i \in 1..Len(r.freed)} \cup {r.moved[i] : i \in 1..Len(r.moved)})

\* one call idl_parse_directive(proc, &t)
Call(t) ==
  LET r == idl_parse_directive(Proc, t)
  IN  /\ state' = r.p.state
      /\ directive' = r.p.directive
      /\ files' = r.p.files
      /\ position' = r.p.position
      /\ mask' = r.p.mask
      /\ warnings' = r.p.warnings
      /\ tok' = t
      /\ tokstr' = r.str
      /\ ret' = r.ret
      /\ diag' = r.diag
      /\ failed' = (failed \/ r.ret # IDL_RETCODE_OK)
      /\ line_failed' = (line_failed \/ r.ret # IDL_RETCODE_OK)
      /\ mem' = [freed |-> r.freed, moved |-> r.moved, lost |-> Lost(directive, r)]

\* a token while no directive is recognised yet
ParseOuter(t) ==
  /\ state \in {IDL_SCAN_DIRECTIVE, IDL_SCAN_DIRECTIVE_NAME, IDL_SCAN_PRAGMA}
  /\ Call(t)

\* a token of a #line directive
ParseLine(t) ==
  /\ InLineFamily(state)
  /\ (state = IDL_SCAN_EXTRA_TOKEN /\ ~IsTerminator(t)) => warnings < MaxExtraTokens
  /\ Call(t)

\* a token of a #pragma keylist directive
ParseKeylist(t) ==
  /\ InKeylistFamily(state)
  /\ (state = IDL_SCAN_KEY /\ t.code = IDL_TOKEN_IDENTIFIER)
        => Len(directive[1].keys) < MaxKeys
  /\ Call(t)

Next ==
  \/ BeginDirective
  \/ \E t \in Inputs(state) : ParseOuter(t)
  \/ \E t \in Inputs(state) : ParseLine(t)
  \/ \E t \in Inputs(state) : ParseKeylist(t)

Spec == Init /\ [][Next]_vars

\* the runs whose directive lines are #line directives
NextLine ==
  \/ BeginDirective
  \/ \E t \in LineInputs(state) : ParseOuter(t)
  \/ \E t \in LineInputs(state) : ParseLine(t)

SpecLine == Init /\ [][NextLine]_vars

\* the runs whose directive lines are #pragma keylist directives
NextKeylist ==
  \/ BeginDirective
  \/ \E t \in KeylistInputs(state) : ParseOuter(t)
  \/ \E t \in KeylistInputs(state) : ParseKeylist(t)

SpecKeylist == Init /\ [][NextKeylist]_vars

\* the runs whose directive lines are of both kinds
NextMixed ==
  \/ BeginDirective
  \/ \E t \in MixedInputs(state) : ParseOuter(t)
  \/ \E t \in MixedInputs(state) : ParseLine(t)
  \/ \E t \in MixedInputs(state) : ParseKeylist(t)

SpecMixed == Init /\ [][NextMixed]_vars

\* the same runs, the caller going on to feed the tokens of the line
SpecMixedFair == Init /\ [][NextMixed]_vars /\ WF_vars(NextMixed)

----------------------------------------------------------------------------
(* The claims about #line directives, checked under SpecLine *)

\* the step is a call of idl_parse_directive that commits a #line directive
LineCommit == state \in {IDL_SCAN_FILENAME, IDL_SCAN_EXTRA_TOKEN} /\ IsTerminator(tok')

Range(f) == {f[i] : i \in DOMAIN f}

\* the value of a decimal digit sequence from its i-th digit on, acc being the
\* value of the digits before; -1 once it is past INT32_MAX
RECURSIVE DecimalValue(_, _, _)
DecimalValue(s, i, acc) ==
  IF i > Len(s) THEN acc
  ELSE IF acc = -1 \/ acc > INT32_MAX \div 10
          \/ (acc = INT32_MAX \div 10 /\ DigitVal[s[i]] > INT32_MAX % 10)
  THEN -1
  ELSE DecimalValue(s, i + 1, acc * 10 + DigitVal[s[i]])

IsDecimal(s) == Len(s) > 0 /\ \A i \in 1..Len(s) : s[i] \in DOMAIN DigitVal

\* the token is a NUMBER whose text is a decimal number of value at most INT32_MAX
GoodLineNumber(t) ==
  /\ t.code = IDL_TOKEN_PP_NUMBER
  /\ IsDecimal(Chars[t.str[1]])
  /\ DecimalValue(Chars[t.str[1]], 1, 0) # -1

\* C1: in IDL_SCAN_LINE a token is accepted exactly if it is a NUMBER whose text
\* is a non-empty sequence of decimal digits of value v <= INT32_MAX; the
\* directive's line number is then v, it stays v until the terminator, and the
\* commit sets the scan position's line to it.  Every other token returns
\* SyntaxError and leaves the scan position's line as it is.
C1_LineNumber ==
  [][ /\ state = IDL_SCAN_LINE =>
           IF GoodLineNumber(tok')
           THEN /\ ret' = IDL_RETCODE_OK
                /\ state' = IDL_SCAN_FILENAME
                /\ directive'[1].line = Some(DecimalValue(Chars[tok'.str[1]], 1, 0))
           ELSE /\ ret' = IDL_RETCODE_SYNTAX_ERROR
                /\ position'.line = position.line
      /\ (state \in {IDL_SCAN_FILENAME, IDL_SCAN_EXTRA_TOKEN} /\ ~IsTerminator(tok'))
           => directive'[1].line = directive[1].line
      /\ LineCommit => position'.line = directive[1].line[1]
    ]_vars

\* C1's case: #line 2147483647 was committed
C1_Witness ==
  /\ ~failed /\ state = IDL_SCAN /\ IsTerminator(tok)
  /\ position.line = INT32_MAX

NoDuplicates(fs) == \A i, j \in 1..Len(fs) : fs[i] = fs[j] => i = j

\* C2: the file table never holds a name twice; a commit with a file name not
\* yet in the table appends it, so the names stand in the order of their first
\* commit; a commit with a known name, a commit without a name and every other
\* step leave the table as it is.
C2_FileTable ==
  [][ /\ NoDuplicates(files')
      /\ IF LineCommit /\ directive[1].file # NULL
         THEN files' = IF directive[1].file[1] \in Range(files)
                       THEN files
                       ELSE Append(files, directive[1].file[1])
         ELSE files' = files
    ]_vars

\* C2's case: a.idl, A.idl and b.idl were committed in that order, and a.idl
\* again after them
C2_Witness ==
  /\ ~failed /\ state = IDL_SCAN /\ IsTerminator(tok)
  /\ files = <<"a.idl", "A.idl", "b.idl">>
  /\ position.file = Some("a.idl")

\* C3: the commit of a #line directive without a file name leaves the current
\* file and the file table as they are; the commit of one with a file name sets
\* the current file to the name of that name's entry in the table; both set the
\* line to the directive's number and the column to 1.
C3_Commit ==
  [][ LineCommit =>
        /\ ret' = IDL_RETCODE_OK
        /\ position'.line = directive[1].line[1]
        /\ position'.column = 1
        /\ IF directive[1].file = NULL
           THEN position'.file = position.file /\ files' = files
           ELSE \E i \in 1..Len(files') :
                  /\ files'[i] = directive[1].file[1]
                  /\ position'.file = Some(files'[i])
    ]_vars

\* C3's case: with a.idl current, #line 7 "b.idl" and then #line 0 were committed
C3_Witness ==
  /\ ~failed /\ state = IDL_SCAN /\ IsTerminator(tok)
  /\ files = <<"a.idl", "b.idl">>
  /\ position = [file |-> Some("b.idl"), line |-> 0, column |-> 1]

\* C4 as claimed: in a run without an error, after an extra token of a #line
\* directive exactly one "extra tokens" warning has been emitted for the
\* directive.  The code warns again on every extra token.
C4_WarnedOnce ==
  [][ (~failed /\ state = IDL_SCAN_EXTRA_TOKEN /\ ~IsTerminator(tok')) => warnings' = 1 ]_vars

\* C5 as claimed: in a run without an error so far, no token between the number
\* and the terminator, the file name apart, returns an error.  A token that is not a string returns SyntaxError when
\* it follows the number.
C5_NoErrorAfterNumber ==
  [][ ( /\ ~failed
        /\ state \in {IDL_SCAN_FILENAME, IDL_SCAN_EXTRA_TOKEN}
        /\ ~IsTerminator(tok')
        /\ ~(state = IDL_SCAN_FILENAME /\ tok'.code = IDL_TOKEN_STRING_LITERAL) )
      => (ret' = IDL_RETCODE_OK /\ state' = IDL_SCAN_EXTRA_TOKEN) ]_vars

\* C5, amended: a token other than the terminator received in
\* IDL_SCAN_EXTRA_TOKEN returns Ok, leaves the state, the directive's line number
\* and file, the file table and the scan position as they are, and the
\* terminator then commits that line number and that file.
C5_ExtraTokens ==
  [][ /\ (state = IDL_SCAN_EXTRA_TOKEN /\ ~IsTerminator(tok')) =>
           /\ ret' = IDL_RETCODE_OK
           /\ state' = IDL_SCAN_EXTRA_TOKEN
           /\ directive'[1].line = directive[1].line
           /\ directive'[1].file = directive[1].file
           /\ files' = files
           /\ position' = position
      /\ (state = IDL_SCAN_EXTRA_TOKEN /\ IsTerminator(tok')) =>
           /\ ret' = IDL_RETCODE_OK
           /\ state' = IDL_SCAN
           /\ position'.line = directive[1].line[1]
           /\ position'.file = IF directive[1].file # NULL
                               THEN directive[1].file ELSE position.file
    ]_vars

\* C5's case: #line 7 "b.idl" with two extra tokens was committed
C5_Witness ==
  /\ ~failed /\ state = IDL_SCAN /\ IsTerminator(tok)
  /\ warnings >= 2
  /\ position = [file |-> Some("b.idl"), line |-> 7, column |-> 1]

----------------------------------------------------------------------------
(* The claims about #pragma keylist directives, checked under SpecKeylist *)

\* the step is a call of idl_parse_directive that commits a keylist directive
KeylistCommit == state = IDL_SCAN_KEY /\ IsTerminator(tok')

\* the directive's type name and keys at the commit
TypeName == directive[1].data_type[1]
Keys == directive[1].keys

\* the scope's entries whose name is n but for letter case, and those named n
EntriesFound(n) == {i \in 1..Len(Scope) : ToLower(Scope[i].name) = ToLower(n)}
EntryFound(n) == Scope[CHOOSE i \in EntriesFound(n) : \A j \in EntriesFound(n) : i <= j]

\* n resolves to a struct that is not a forward declaration
ValidStruct(n) ==
  /\ EntriesFound(n) # {}
  /\ EntryFound(n).name = n
  /\ Nodes[EntryFound(n).node].struct
  /\ ~Nodes[EntryFound(n).node].forward

\* the members of the struct named n, in member order
StructMembers(n) == Nodes[EntryFound(n).node].members

\* the positions of the members with a declarator named k, and the first such member
Named(n, k) ==
  {j \in 1..Len(StructMembers(n)) : k \in Range(Declarators[StructMembers(n)[j]])}
FirstNamed(n, k) ==
  StructMembers(n)[CHOOSE j \in Named(n, k) : \A l \in Named(n, k) : j <= l]

\* the i-th key names a member that carries the key flag before the commit, or
\* that an earlier key of the directive names
Duplicate(i) ==
  /\ Named(TypeName, Keys[i]) # {}
  /\ \/ mask[FirstNamed(TypeName, Keys[i])]
     \/ \E j \in 1..(i-1) :
          /\ Named(TypeName, Keys[j]) # {}
          /\ FirstNamed(TypeName, Keys[j]) = FirstNamed(TypeName, Keys[i])

Unknown(i) == Named(TypeName, Keys[i]) = {}

\* the position of the first key that is unknown or a duplicate, 0 for none
FirstBad ==
  LET bad == {i \in 1..Len(Keys) : Unknown(i) \/ Duplicate(i)}
  IN  IF bad = {} THEN 0 ELSE CHOOSE i \in bad : \A j \in bad : i <= j

\* C6: a keylist commit returns Ok exactly if the type name resolves to a struct
\* that is no forward declaration and no key is unknown or a duplicate; it then
\* flags exactly the members of that struct with a declarator some key names,
\* and every other member of every struct keeps its flag (none changes when
\* there is no key).
C6_KeysFlagged ==
  [][ KeylistCommit =>
        /\ (ret' = IDL_RETCODE_OK) = (ValidStruct(TypeName) /\ FirstBad = 0)
        /\ ret' = IDL_RETCODE_OK =>
             mask' = [m \in Members |->
                        \/ mask[m]
                        \/ /\ m \in Range(StructMembers(TypeName))
                           /\ \E i \in 1..Len(Keys) : Keys[i] \in Range(Declarators[m])]
    ]_vars

\* C6's case: after #pragma keylist T a, #pragma keylist S b was committed
C6_Witness ==
  /\ ~failed /\ state = IDL_SCAN /\ IsTerminator(tok) /\ directive = NULL
  /\ mask = [m \in Members |-> m \in {"S1", "T1"}]

\* C7: a commit on a valid struct with a duplicate key returns SemanticError,
\* with the DuplicateKey diagnostic when that key is the first one to fail.
C7_DuplicateKey ==
  [][ (KeylistCommit /\ ValidStruct(TypeName)) =>
        /\ (\E i \in 1..Len(Keys) : Duplicate(i)) => ret' = IDL_RETCODE_SEMANTIC_ERROR
        /\ (FirstBad # 0 /\ Duplicate(FirstBad)) =>
             diag' = "redefinition of key in keylist directive"
    ]_vars

\* C7's case: #pragma keylist S c c failed at the second c
C7_Witness ==
  /\ state = IDL_SCAN /\ ret = IDL_RETCODE_SEMANTIC_ERROR
  /\ diag = "redefinition of key in keylist directive"
  /\ directive = Some([kind |-> "IDL_KEYLIST", data_type |-> Some("S"), keys |-> <<"c", "c">>])
  /\ mask = [m \in Members |-> m = "S2"]

\* the diagnostic the type-level checks are claimed to give for n, "" for none
TypeDiagnostic(n) ==
  IF EntriesFound(n) = {}
  THEN "unknown data-type in keylist directive"
  ELSE IF EntryFound(n).name # n
  THEN "data-type differs in case"
  ELSE IF ~ValidStruct(n)
  THEN "data-type in keylist directive is not a struct"
  ELSE ""

\* C8: at a keylist commit the first failing one of: type name not in scope,
\* found under a name of other letter case, not a struct or a forward
\* declaration, decides the diagnostic; the commit then returns SemanticError
\* and no member's key flag changes.
C8_TypeChecks ==
  [][ KeylistCommit =>
        IF TypeDiagnostic(TypeName) # ""
        THEN /\ ret' = IDL_RETCODE_SEMANTIC_ERROR
             /\ diag' = TypeDiagnostic(TypeName)
             /\ mask' = mask
        ELSE diag' \notin {"unknown data-type in keylist directive",
                           "data-type differs in case",
                           "data-type in keylist directive is not a struct"}
    ]_vars

\* C8's case: #pragma keylist f a, F being a forward declaration
C8_Witness ==
  /\ state = IDL_SCAN /\ ret = IDL_RETCODE_SEMANTIC_ERROR
  /\ diag = "data-type differs in case"
  /\ directive = Some([kind |-> "IDL_KEYLIST", data_type |-> Some("f"), keys |-> <<"a">>])

\* C9: a commit on a valid struct with a key that no declarator of the struct
\* has returns SemanticError, with the UnknownMember diagnostic when that key is
\* the first one to fail; every key before the first failing one has flagged the
\* first member with a declarator of exactly its name.
C9_UnknownMember ==
  [][ (KeylistCommit /\ ValidStruct(TypeName)) =>
        /\ (\E i \in 1..Len(Keys) : Unknown(i)) => ret' = IDL_RETCODE_SEMANTIC_ERROR
        /\ (FirstBad # 0 /\ Unknown(FirstBad)) =>
             diag' = "unknown struct member in keylist directive"
        /\ \A i \in 1..Len(Keys) :
             (FirstBad = 0 \/ i < FirstBad) => mask'[FirstNamed(TypeName, Keys[i])]
    ]_vars

\* C9's case: #pragma keylist S b A flagged the member of b and failed at A
C9_Witness ==
  /\ state = IDL_SCAN /\ ret = IDL_RETCODE_SEMANTIC_ERROR
  /\ diag = "unknown struct member in keylist directive"
  /\ directive = Some([kind |-> "IDL_KEYLIST", data_type |-> Some("S"), keys |-> <<"b", "A">>])
  /\ mask = [m \in Members |-> m = "S1"]

\* C10: when the first failing key of a commit on a valid struct is the i-th,
\* the commit returns SemanticError, the members the keys before the i-th name
\* are flagged, and no other member's flag changes.
C10_NoRollback ==
  [][ (KeylistCommit /\ ValidStruct(TypeName) /\ FirstBad # 0) =>
        /\ ret' = IDL_RETCODE_SEMANTIC_ERROR
        /\ mask' = [m \in Members |->
                      \/ mask[m]
                      \/ \E j \in 1..(FirstBad - 1) : m = FirstNamed(TypeName, Keys[j])]
    ]_vars

\* C10's case: #pragma keylist S c A flagged the member of c and failed at A
C10_Witness ==
  /\ state = IDL_SCAN /\ ret = IDL_RETCODE_SEMANTIC_ERROR
  /\ diag = "unknown struct member in keylist directive"
  /\ directive = Some([kind |-> "IDL_KEYLIST", data_type |-> Some("S"), keys |-> <<"c", "A">>])
  /\ mask = [m \in Members |-> m = "S2"]

----------------------------------------------------------------------------
(* The claims about both kinds of directive lines, checked under SpecMixed *)

\* the states in which no directive is recognised yet
OuterStates == {IDL_SCAN_DIRECTIVE, IDL_SCAN_DIRECTIVE_NAME, IDL_SCAN_PRAGMA}

\* the token is the identifier s
IsIdent(t, s) == t.code = IDL_TOKEN_IDENTIFIER /\ t.str = Some(s)

\* C11: while no directive is recognised yet, the calls that return Ok are:
\* '#' in IDL_SCAN_DIRECTIVE, to IDL_SCAN_DIRECTIVE_NAME; there the identifier
\* line, to IDL_SCAN_LINE with a new line directive (no line, no file,
\* extra_tokens false), the identifier pragma, to IDL_SCAN_PRAGMA, and a
\* newline or the end of input, to IDL_SCAN; in IDL_SCAN_PRAGMA the identifier
\* keylist, to IDL_SCAN_KEYLIST with a new keylist directive (no data type, no
\* keys).  Every other call returns SyntaxError and leaves the state and the
\* directive in progress as they were.
C11_OuterMachine ==
  [][ (state \in OuterStates) =>
       (IF state = IDL_SCAN_DIRECTIVE /\ tok'.code = HASH
        THEN ret' = IDL_RETCODE_OK /\ state' = IDL_SCAN_DIRECTIVE_NAME
        ELSE IF state = IDL_SCAN_DIRECTIVE_NAME /\ IsIdent(tok', "line")
        THEN /\ ret' = IDL_RETCODE_OK /\ state' = IDL_SCAN_LINE
             /\ directive' = Some([kind |-> "IDL_LINE", line |-> NULL, file |-> NULL,
                                   extra_tokens |-> FALSE])
        ELSE IF state = IDL_SCAN_DIRECTIVE_NAME /\ IsIdent(tok', "pragma")
        THEN ret' = IDL_RETCODE_OK /\ state' = IDL_SCAN_PRAGMA
        ELSE IF state = IDL_SCAN_DIRECTIVE_NAME /\ IsTerminator(tok')
        THEN ret' = IDL_RETCODE_OK /\ state' = IDL_SCAN
        ELSE IF state = IDL_SCAN_PRAGMA /\ IsIdent(tok', "keylist")
        THEN /\ ret' = IDL_RETCODE_OK /\ state' = IDL_SCAN_KEYLIST
             /\ directive' = Some([kind |-> "IDL_KEYLIST", data_type |-> NULL,
                                   keys |-> <<>>])
        ELSE /\ ret' = IDL_RETCODE_SYNTAX_ERROR
             /\ state' = state /\ directive' = directive)
    ]_vars

\* C11's case: # pragma and a newline: the newline returned SyntaxError and
\* the state is still IDL_SCAN_PRAGMA
C11_Witness ==
  /\ state = IDL_SCAN_PRAGMA /\ tok = Punct(NEWLINE)
  /\ ret = IDL_RETCODE_SYNTAX_ERROR /\ directive = NULL

----------------------------------------------------------------------------
(* More claims about #pragma keylist directives, checked under SpecKeylist *)

\* C12: in IDL_SCAN_KEY a token that is no terminator is treated so: a comma
\* returns Ok and changes nothing when a key has been captured, and SyntaxError
\* when none has; any other token that is not an identifier, and an identifier
\* that is a keyword, return SyntaxError and append nothing; any other
\* identifier returns Ok and becomes the last key, the keys before it as they
\* were.
C12_KeyTokens ==
  [][ (state = IDL_SCAN_KEY /\ ~IsTerminator(tok')) =>
       (IF tok'.code = COMMA /\ Keys # <<>>
        THEN ret' = IDL_RETCODE_OK /\ state' = state /\ directive' = directive
        ELSE IF tok'.code # IDL_TOKEN_IDENTIFIER \/ idl_iskeyword(tok'.str[1])
        THEN ret' = IDL_RETCODE_SYNTAX_ERROR /\ state' = state /\ directive' = directive
        ELSE /\ ret' = IDL_RETCODE_OK /\ state' = state
             /\ directive' = Some([directive[1] EXCEPT !.keys = Keys \o <<tok'.str[1]>>]))
    ]_vars

\* C12's case: #pragma keylist S a b , : the comma after the keys a and b was
\* accepted and changed nothing
C12_Witness ==
  /\ ~failed /\ state = IDL_SCAN_KEY /\ tok = Punct(COMMA) /\ ret = IDL_RETCODE_OK
  /\ directive = Some([kind |-> "IDL_KEYLIST", data_type |-> Some("S"), keys |-> <<"a", "b">>])

\* C13: the token sequences accepted after the type name are those of
\* (IDENTIFIER (','? IDENTIFIER)* )? and a terminator: while every token of
\* the line so far was accepted, the next token is accepted (does not return
\* SyntaxError) exactly when it is a key identifier, or a comma that follows a
\* key identifier, or a terminator that does not follow a comma.
C13_KeyListGrammar ==
  [][ (state = IDL_SCAN_KEY /\ ~line_failed) =>
       ( (ret' # IDL_RETCODE_SYNTAX_ERROR)
           <=> \/ tok'.code = IDL_TOKEN_IDENTIFIER /\ ~idl_iskeyword(tok'.str[1])
               \/ tok'.code = COMMA /\ tok.code = IDL_TOKEN_IDENTIFIER /\ Keys # <<>>
               \/ IsTerminator(tok') /\ tok.code # COMMA )
    ]_vars

----------------------------------------------------------------------------
(* More claims about both kinds of directive lines, checked under SpecMixed *)

\* C14: once a call has returned an error for a token of a directive line, the
\* terminator of that line commits nothing: the scan position, the file table
\* and the key flags of the members stay as they are.
C14_NotSalvaged ==
  [][ (line_failed /\ IsTerminator(tok')) =>
        (position' = position /\ files' = files /\ mask' = mask)
    ]_vars

\* C15: whenever the state is IDL_SCAN, proc->directive is NULL: the directive
\* does not outlive the call that handled its terminator, whether that call
\* returned Ok or an error.
C15_SlotEmpty == state = IDL_SCAN => directive = NULL

\* C16: in every reachable state, those left by error returns included: in the
\* states of parse_line proc->directive is a line directive, in the states of
\* parse_keylist it is a keylist directive; in IDL_SCAN_FILENAME and
\* IDL_SCAN_EXTRA_TOKEN the line directive has its line number; in
\* IDL_SCAN_FILENAME it has no file; in IDL_SCAN_KEY the keylist directive has
\* its data type.
C16_SlotMatchesState ==
  /\ InLineFamily(state) =>
       /\ directive # NULL
       /\ directive[1].kind = "IDL_LINE"
       /\ state \in {IDL_SCAN_FILENAME, IDL_SCAN_EXTRA_TOKEN} => directive[1].line # NULL
       /\ state = IDL_SCAN_FILENAME => directive[1].file = NULL
  /\ InKeylistFamily(state) =>
       /\ directive # NULL
       /\ directive[1].kind = "IDL_KEYLIST"
       /\ state = IDL_SCAN_KEY => directive[1].data_type # NULL

\* C16's case: #line 7 include: include returned SyntaxError and left the
\* state IDL_SCAN_EXTRA_TOKEN, the directive holding the line number
C16_Witness ==
  /\ state = IDL_SCAN_EXTRA_TOKEN /\ ret = IDL_RETCODE_SYNTAX_ERROR
  /\ directive = Some([kind |-> "IDL_LINE", line |-> Some(7), file |-> NULL,
                       extra_tokens |-> FALSE])

\* C17: a call with a token that is no terminator leaves the scan position,
\* the file table and the key flags as they are; the scan position and the
\* file table change only in the commit of a #line directive, the key flags
\* only in the commit of a keylist directive, and SemanticError is returned
\* only by the commit of a keylist directive.
C17_OnlyCommitsChange ==
  [][ (state # IDL_SCAN) =>
        /\ ~IsTerminator(tok') =>
             (position' = position /\ files' = files /\ mask' = mask)
        /\ (position' # position \/ files' # files) => LineCommit
        /\ mask' # mask => KeylistCommit
        /\ ret' = IDL_RETCODE_SEMANTIC_ERROR => KeylistCommit
    ]_vars

\* C17's case: #line 7 "a.idl" before its terminator: the name is captured,
\* the file table is empty and the scan position is as it was
C17_Witness ==
  /\ ~failed /\ state = IDL_SCAN_EXTRA_TOKEN /\ tok = String("a.idl")
  /\ directive = Some([kind |-> "IDL_LINE", line |-> Some(7), file |-> Some("a.idl"),
                       extra_tokens |-> FALSE])
  /\ files = <<>> /\ position = [file |-> NULL, line |-> 1, column |-> 2]

----------------------------------------------------------------------------
(* More claims about the commit of a keylist, checked under SpecKeylist *)

\* the keys i and j name two declarators of one member
SameMember(i, j) ==
  /\ Keys[i] # Keys[j]
  /\ Named(TypeName, Keys[i]) # {} /\ Named(TypeName, Keys[j]) # {}
  /\ FirstNamed(TypeName, Keys[i]) = FirstNamed(TypeName, Keys[j])

\* C18: the key flag belongs to the member, not to the declarator.  In a
\* commit on a valid struct that returns Ok, every member with a declarator a
\* key names carries the flag; when a key names another declarator of the
\* member an earlier key names, and no key before it fails, the commit returns
\* SemanticError with the duplicate-key diagnostic, the member flagged.
C18_FlagPerMember ==
  [][ (KeylistCommit /\ ValidStruct(TypeName)) =>
        /\ ret' = IDL_RETCODE_OK =>
             \A i \in 1..Len(Keys) : mask'[FirstNamed(TypeName, Keys[i])]
        /\ \A j \in 1..Len(Keys) :
             (FirstBad = j /\ \E i \in 1..(j-1) : SameMember(i, j)) =>
               /\ ret' = IDL_RETCODE_SEMANTIC_ERROR
               /\ diag' = "redefinition of key in keylist directive"
               /\ mask'[FirstNamed(TypeName, Keys[j])]
    ]_vars

\* C18's case: #pragma keylist S a b, a and b declared by one member: the
\* commit flagged the member for a and failed at b
C18_Witness ==
  /\ state = IDL_SCAN /\ ret = IDL_RETCODE_SEMANTIC_ERROR
  /\ diag = "redefinition of key in keylist directive"
  /\ directive = Some([kind |-> "IDL_KEYLIST", data_type |-> Some("S"), keys |-> <<"a", "b">>])
  /\ mask = [m \in Members |-> m = "S1"]

----------------------------------------------------------------------------
(* The claim about the strings of the tokens, checked under SpecMixed *)

\* the string the directive d holds as the payload s
Held(d, s) ==
  CASE s.field = "file"      -> d[1].file[1]
    [] s.field = "data_type" -> d[1].data_type[1]
    [] s.field = "keys"      -> d[1].keys[s.index]

\* how often x occurs in the sequence q
Count(q, x) == Cardinality({i \in 1..Len(q) : q[i] = x})

\* the payloads the directive holds after the step and did not hold before
Taken == Captured(directive') \ Captured(directive)

\* the step is a call that handles its token's string as the claim says: the
\* call either empties tok->value.str, and then exactly one field of the
\* directive newly holds that string, or leaves it, and then no field newly
\* holds anything; a number, a comma, a token in IDL_SCAN_EXTRA_TOKEN and the
\* token of an error return are left
TokenKept ==
  /\ \/ /\ tok'.str # NULL /\ tokstr' = NULL
        /\ Cardinality(Taken) = 1
        /\ \A s \in Taken : Held(directive', s) = tok'.str[1]
        /\ Captured(directive) \subseteq Captured(directive')
        /\ \A s \in Captured(directive) : Held(directive', s) = Held(directive, s)
     \/ tokstr' = tok'.str /\ Taken = {}
  /\ ( \/ tok'.code \in {IDL_TOKEN_PP_NUMBER, COMMA}
       \/ state = IDL_SCAN_EXTRA_TOKEN
       \/ ret' # IDL_RETCODE_OK ) => tokstr' = tok'.str

\* the step is no successful commit, or one that frees every payload the
\* directive holds exactly once or else moves it into exactly one new entry at
\* the end of proc->files, frees and moves nothing else, and leaves
\* proc->directive NULL
CommitReleases ==
  ((LineCommit \/ KeylistCommit) /\ ret' = IDL_RETCODE_OK) =>
    /\ \A s \in Captured(directive) :
         Count(mem'.freed, s) + Count(mem'.moved, s) = 1
    /\ \A i \in 1..Len(mem'.freed) : mem'.freed[i] \in Captured(directive)
    /\ \A i \in 1..Len(mem'.moved) : mem'.moved[i] \in Captured(directive)
    /\ files' = files \o [i \in 1..Len(mem'.moved) |-> Held(directive, mem'.moved[i])]
    /\ directive' = NULL

\* C19: every string of a token has one owner at all times: every call of
\* idl_parse_directive keeps the token's string as TokenKept says, a
\* successful commit releases the directive's strings as CommitReleases says,
\* and no call leaves a string the directive held without an owner (neither
\* held, nor freed, nor in the file table).
C19_SingleOwner ==
  [][ (state # IDL_SCAN) => (TokenKept /\ CommitReleases /\ mem'.lost = {}) ]_vars

----------------------------------------------------------------------------
(* The claim about the end of a directive line, checked under SpecMixedFair *)

\* while no call has returned an error, a call that returns Ok leaves the
\* state IDL_SCAN exactly when its token is a terminator
EndsAtTerminator ==
  [][ (~failed /\ state # IDL_SCAN /\ ret' = IDL_RETCODE_OK) =>
        (IsTerminator(tok') <=> state' = IDL_SCAN)
    ]_vars

\* a directive line in which no call has returned an error comes to a call
\* that returns an error or to the state IDL_SCAN
LineEnds == (state # IDL_SCAN /\ ~failed) ~> (failed \/ state = IDL_SCAN)

\* C20: every directive line terminates.  As long as the caller feeds tokens
\* and no call has returned an error, the line comes to a call that returns an
\* error or to a terminator whose call returns Ok with the state IDL_SCAN; no
\* call that returns Ok on a terminator leaves any other state, and no other
\* call that returns Ok leaves the state IDL_SCAN.
C20_LineTerminates == EndsAtTerminator /\ LineEnds

\* C20's case: a #pragma keylist S a line and a #line 7 line, no call of which
\* returned an error, are over
C20_Witness ==
  /\ ~failed /\ state = IDL_SCAN /\ IsTerminator(tok) /\ directive = NULL
  /\ mask["S1"] /\ position.line = 7

====
